---- MODULE Spec2Model ----
(***************************************************************************)
(* Model of the Action pipeline builder and executor (src/src/action.ts).  *)
(*                                                                         *)
(* One Action instance is modelled: its three private fields, the three    *)
(* builder methods, and execute().  execute() is an async function, so one *)
(* invocation is a chain of steps separated by its await points; several   *)
(* invocations of the callable returned by setActionFn interleave at those *)
(* points, and builder methods may be called between any two steps.        *)
(*                                                                         *)
(* JavaScript objects are functions whose DOMAIN is the set of own keys;   *)
(* reading a missing property yields Undefined.                            *)
(***************************************************************************)
EXTENDS Integers, Sequences, FiniteSets, TLC

\* ------------------------------------------------------------------ bounds
NumInvocations == 2
MaxValidators == 2
\* builder methods called after the first call of the callable
MaxLateCalls == 1

Invocations == 1..NumInvocations

\* ------------------------------------------------------- JavaScript values
Undefined == "undefined"

EmptyObject == [k \in {} |-> Undefined]

\* obj.key / obj[key]: the value of a property, undefined when it is missing
Get(obj, key) == IF key \in DOMAIN obj THEN obj[key] ELSE Undefined

\* variant: the target's own entries are dropped
ObjectAssignReplace(target, source) == source

\* variant: an entry the target already has is kept
ObjectAssignKeep(target, source) ==
  [k \in DOMAIN target \cup DOMAIN source |->
     IF k \in DOMAIN target THEN target[k] ELSE source[k]]

\* Object.assign(target, source) for an object source
ObjectAssign(target, source) ==
  [k \in DOMAIN target \cup DOMAIN source |->
     IF k \in DOMAIN source THEN source[k] ELSE target[k]]

\* variant: the fragment becomes the context
AssignContextFresh(target, result) ==
  IF "context" \in DOMAIN result
  THEN result.context
  ELSE target

\* variant: an undefined source empties the target
AssignContextCleared(target, result) ==
  IF "context" \in DOMAIN result
  THEN ObjectAssign(target, result.context)
  ELSE EmptyObject

\* Object.assign(this.context, result.context): an undefined source is skipped
AssignContext(target, result) ==
  IF "context" \in DOMAIN result
  THEN ObjectAssign(target, result.context)
  ELSE target

\* ------------------------------------------------------------------ inputs
\* params values: the num of the numeric tests
Params == {1, 2}

\* schemas handed to setInputSchema
Schemas == {"nameInputSchema", "numberInputSchema"}

\* user ids a session lookup may yield
UserIds == {"user_123", "user_456"}

\* validators handed to addValidator; each maps its argument to the set of
\* outcomes it may return
firstValidator(arg) ==
  IF arg.params = 1
  THEN {[ok |-> FALSE, errorCode |-> "firstInvalid", payload |-> "Data 1"]}
  ELSE {[ok |-> TRUE]}

secondValidator(arg) ==
  IF arg.params = 2
  THEN {[ok |-> FALSE, errorCode |-> "secondInvalid", payload |-> "Data 2"]}
  ELSE {[ok |-> TRUE]}

userSessionValidator(arg) ==
  {[ok |-> FALSE, errorCode |-> "noSession",
    payload |-> "You must be logged in."]}
  \cup {[ok |-> TRUE, context |-> [userId |-> u]] : u \in UserIds}

\* a validator whose fragment uses the reserved key
reservedKeyValidator(arg) ==
  {[ok |-> TRUE, context |-> [inputSchema |-> "nameInputSchema"]]}

\* a validator whose promise may reject: a thrown error is the outcome
\* [throws |-> message]
throwingValidator(arg) ==
  {[throws |-> "Lookup failed"], [ok |-> TRUE]}

\* a validator declared with neither context nor error map
anyValidator(arg) == {[ok |-> TRUE], [ok |-> FALSE]}

\* ------------------------------------------------- schema validator adapter
\* the object schemas of the tests and the README, as the ordered list of
\* their string fields with the minimum length and message of each
Shape(schema) ==
  CASE schema = "nameInputSchema" ->
         <<[key |-> "name", min |-> 2,
            message |-> "Name must contain at least 2 character(s)"]>>
    [] schema = "postSchema" ->
         <<[key |-> "title", min |-> 0, message |-> "Too small"],
           [key |-> "description", min |-> 0, message |-> "Too small"],
           [key |-> "content", min |-> 0, message |-> "Too small"]>>

\* the issues the schema engine raises for one field of a value
FieldIssues(field, value) ==
  IF field.key \notin DOMAIN value
  THEN <<[code |-> "invalid_type", path |-> <<field.key>>,
          message |-> "Invalid input: expected string, received undefined"]>>
  ELSE IF Len(value[field.key]) < field.min
       THEN <<[code |-> "too_small", path |-> <<field.key>>,
               message |-> field.message]>>
       ELSE <<>>

RECURSIVE Issues(_, _)
\* the issues of a value, field after field in the order of the schema
Issues(shape, value) ==
  IF shape = <<>>
  THEN <<>>
  ELSE FieldIssues(Head(shape), value) \o Issues(Tail(shape), value)

\* safeParse(schema, params) of the schema engine
safeParse(schema, value) ==
  LET issues == Issues(Shape(schema), value)
  IN IF issues = <<>>
     THEN [success |-> TRUE, data |-> value]
     ELSE [success |-> FALSE, error |-> [issues |-> issues]]

\* variant: the issues are reported last first
zodValidatorReversed(schema, value) ==
  LET result == safeParse(schema, value)
      issues == result.error.issues
  IN IF ~result.success
     THEN [ok |-> FALSE,
           errorCode |-> "zodValidator_invalidParams",
           payload |-> [issues |-> [k \in 1..Len(issues) |->
                                      issues[Len(issues) + 1 - k]]]]
     ELSE [ok |-> TRUE]

\* variant: the adapter hands the parsed value on as a context fragment
zodValidatorInjects(schema, value) ==
  LET result == safeParse(schema, value)
  IN IF ~result.success
     THEN [ok |-> FALSE,
           errorCode |-> "zodValidator_invalidParams",
           payload |-> [issues |-> result.error.issues]]
     ELSE [ok |-> TRUE, context |-> [data |-> result.data]]

\* zodValidator(schema, params)
zodValidator(schema, value) ==
  LET result == safeParse(schema, value)
  IN IF ~result.success
     THEN [ok |-> FALSE,
           errorCode |-> "zodValidator_invalidParams",
           payload |-> [issues |-> result.error.issues]]
     ELSE [ok |-> TRUE]

\* the validator step of the adapter's test: it hands the adapter the schema
\* it finds in the context
zodValidatorStep(arg) ==
  {zodValidator(arg.context.inputSchema, arg.params)}

\* schemas and params values of the pipelines that declare an object schema
ObjectSchemas == {"nameInputSchema", "postSchema"}

ObjectParams ==
  {[name |-> "Dave"],
   [name |-> ""],
   [title |-> "Post Title", description |-> "Post Description",
    content |-> "Post Content"]}

SchemaValidators == {"zodValidatorStep", "anyValidator"}

\* params values and validators of the pipelines with numeric validators
NumericParams == {1, 2, 3}

NumericValidators == {"firstValidator", "secondValidator"}

\* validators of the pipelines whose fragments collide
CollidingValidators == {"userSessionValidator", "reservedKeyValidator"}

\* validators of the pipelines in which a validator may throw
ThrowingValidators == {"userSessionValidator", "throwingValidator"}

Validators ==
  {"firstValidator", "userSessionValidator", "anyValidator"}

CallValidator(validator, arg) ==
  CASE validator = "firstValidator" -> firstValidator(arg)
    [] validator = "userSessionValidator" -> userSessionValidator(arg)
    [] validator = "anyValidator" -> anyValidator(arg)
    [] validator = "zodValidatorStep" -> zodValidatorStep(arg)
    [] validator = "secondValidator" -> secondValidator(arg)
    [] validator = "reservedKeyValidator" -> reservedKeyValidator(arg)
    [] validator = "throwingValidator" -> throwingValidator(arg)

\* terminal handlers handed to setActionFn
postHandler(arg) ==
  {[success |-> TRUE, message |-> "Hello", payload |-> "Post"]}

createPost(arg) ==
  {[success |-> FALSE, message |-> "Failed", errorCode |-> "dbError",
    errorPayload |-> "Some Reason"],
   [success |-> TRUE, message |-> "Successfully executed",
    payload |-> "some Id"]}

ActionFns == {"postHandler", "createPost"}

CallActionFn(fn, arg) ==
  CASE fn = "postHandler" -> postHandler(arg)
    [] fn = "createPost" -> createPost(arg)

\* ------------------------------------------------------------------- state
VARIABLES
  context,     \* this.context
  validators,  \* this.validators
  actionFn,    \* this.actionFn
  bound,       \* a callable has been returned by setActionFn
  late,        \* builder methods called since the callable was first called
  writer,      \* history: for each context key, who assigned it last
               \*   (0 = setInputSchema, i = invocation i)
  declared,    \* history: the context as setInputSchema calls alone built it
  pc,          \* per invocation: idle, validator, handler, resolved, rejected
  cursor,      \* per invocation: position of the for..of iterator (1-based)
  params,      \* per invocation: the params argument of execute
  arg,         \* per invocation: the argument object of the latest step call
  entry,       \* history, per invocation: the pipeline when execute was called
  seen,        \* history, per invocation: at the latest step call, the
               \*   writers of the entries of the context handed over and
               \*   the declared context of that moment
  own,         \* history, per invocation: the fragments its validators
               \*   contributed so far, merged in order
  calls,       \* history, per invocation: the validator calls made, in order
  passed,      \* history, per invocation: number of ok results awaited
  last,        \* per invocation: the validator result (or thrown error)
               \*   awaited last, if any
  hcalls,      \* history, per invocation: the actionFn calls made
  hout,        \* history, per invocation: the outcome actionFn returned, if any
  result,      \* per invocation: the value the promise resolved to, if any
  error        \* per invocation: the error the promise rejected with, if any

vars == <<context, validators, actionFn, bound, late, writer, declared, pc,
          cursor, params, arg, entry, seen, own, calls, passed, last, hcalls,
          hout, result, error>>

builder == <<context, validators, actionFn, bound, late, writer, declared>>

invocation == <<pc, cursor, params, arg, entry, seen, own, calls, passed, last,
                hcalls, hout, result, error>>

Settled == {i \in Invocations : pc[i] \in {"resolved", "rejected"}}

\* the writers whose entries are visible in a context
VisibleWriters(wr) == {wr[k] : k \in DOMAIN wr}

\* constructor
Init ==
  /\ context = EmptyObject
  /\ validators = <<>>
  /\ actionFn = Undefined
  /\ bound = FALSE
  /\ late = 0
  /\ writer = EmptyObject
  /\ declared = EmptyObject
  /\ pc = [i \in Invocations |-> "idle"]
  /\ cursor = [i \in Invocations |-> 0]
  /\ params = [i \in Invocations |-> 0]
  /\ arg = [i \in Invocations |-> EmptyObject]
  /\ entry = [i \in Invocations |-> EmptyObject]
  /\ seen = [i \in Invocations |-> [writers |-> {}, declared |-> EmptyObject]]
  /\ own = [i \in Invocations |-> EmptyObject]
  /\ calls = [i \in Invocations |-> <<>>]
  /\ passed = [i \in Invocations |-> 0]
  /\ last = [i \in Invocations |-> <<>>]
  /\ hcalls = [i \in Invocations |-> <<>>]
  /\ hout = [i \in Invocations |-> <<>>]
  /\ result = [i \in Invocations |-> <<>>]
  /\ error = [i \in Invocations |-> <<>>]

\* --------------------------------------------------------- builder methods
\* a builder method is being called; calls made once the callable is in use
\* are counted and capped
BuilderCall ==
  IF \A i \in Invocations : pc[i] = "idle"
  THEN late' = late
  ELSE late < MaxLateCalls /\ late' = late + 1

setInputSchema(schema) ==
  /\ BuilderCall
  /\ context' = ObjectAssign(context, [inputSchema |-> schema])
  /\ writer' = ObjectAssign(writer, [inputSchema |-> 0])
  /\ declared' = ObjectAssign(declared, [inputSchema |-> schema])
  /\ UNCHANGED <<validators, actionFn, bound, invocation>>

\* variant: the validator is put at the head of the list
addValidatorFirst(validator) ==
  /\ BuilderCall
  /\ Len(validators) < MaxValidators
  /\ validators' = <<validator>> \o validators
  /\ UNCHANGED <<context, actionFn, bound, writer, declared, invocation>>

addValidator(validator) ==
  /\ BuilderCall
  /\ Len(validators) < MaxValidators
  /\ validators' = Append(validators, validator)
  /\ UNCHANGED <<context, actionFn, bound, writer, declared, invocation>>

setActionFn(fn) ==
  /\ BuilderCall
  /\ actionFn' = fn
  /\ bound' = TRUE
  /\ UNCHANGED <<context, validators, writer, declared, invocation>>

\* ----------------------------------------------------------------- execute
\* variant: the payload is read from a property the result does not have
ValidationFailedMisread(r) ==
  [success |-> FALSE,
   message |-> "Validation failed",
   errorCode |-> Get(r, "errorCode"),
   errorPayload |-> Get(r, "errorPayload")]

\* the failure outcome execute returns when a validator result is not ok
ValidationFailed(r) ==
  [success |-> FALSE,
   message |-> "Validation failed",
   errorCode |-> Get(r, "errorCode"),
   errorPayload |-> Get(r, "payload")]

\* variant: the engine puts its own message on the outcome
ActionReturnedRewritten(outcome) ==
  [outcome EXCEPT !.message = "Action executed"]

\* variant: the engine keeps only the fields every outcome has
ActionReturnedStripped(outcome) ==
  [k \in {"success", "message"} |-> outcome[k]]

\* the value an invocation resolves to when execute returns actionFn's promise
ActionReturned(outcome) == outcome

\* variant: the guard is missing
IsUnsetNever(fn) == FALSE

\* !this.actionFn
IsUnset(fn) == fn = Undefined

\* variant: the iterator does not advance
NextPositionRepeat(n) == n

\* position of the iterator after one more iteration
NextPosition(n) == n + 1

\* variant: an error is caught and turned into a failure outcome
ThrowAsOutcome(i, message) ==
  /\ pc' = [pc EXCEPT ![i] = "resolved"]
  /\ result' = [result EXCEPT ![i] =
                  <<[success |-> FALSE, message |-> message]>>]
  /\ UNCHANGED <<cursor, arg, seen, calls, hcalls, error>>

\* a throw inside the async function: the promise rejects with the error
Throw(i, message) ==
  /\ pc' = [pc EXCEPT ![i] = "rejected"]
  /\ error' = [error EXCEPT ![i] = <<message>>]
  /\ UNCHANGED <<cursor, arg, seen, calls, hcalls, result>>

\* variant: the value is recorded but the promise is never settled
ReturnNeverSettles(i, value) ==
  /\ pc' = pc
  /\ result' = [result EXCEPT ![i] = <<value>>]
  /\ UNCHANGED <<cursor, arg, seen, calls, hcalls, error>>

\* a return inside the async function: the promise resolves to the value
Return(i, value) ==
  /\ pc' = [pc EXCEPT ![i] = "resolved"]
  /\ result' = [result EXCEPT ![i] = <<value>>]
  /\ UNCHANGED <<cursor, arg, seen, calls, hcalls, error>>

\* variant: every remaining validator is started at once, none awaited first
InvokeValidatorAllAtOnce(i, n, p, ctx, wr) ==
  /\ pc' = [pc EXCEPT ![i] = "validator"]
  /\ cursor' = [cursor EXCEPT ![i] = Len(validators)]
  /\ arg' = [arg EXCEPT ![i] = [params |-> p, context |-> ctx]]
  /\ seen' = [seen EXCEPT ![i] = [writers |-> VisibleWriters(wr),
                                  declared |-> declared]]
  /\ calls' = [calls EXCEPT ![i] =
                 @ \o [k \in 1..(Len(validators) - n + 1) |->
                         [pos |-> n + k - 1, fn |-> validators[n + k - 1]]]]
  /\ UNCHANGED <<hcalls, result, error>>

\* validator({ params, context: this.context }), then suspend at the await
InvokeValidator(i, n, p, ctx, wr) ==
  /\ pc' = [pc EXCEPT ![i] = "validator"]
  /\ cursor' = [cursor EXCEPT ![i] = n]
  /\ arg' = [arg EXCEPT ![i] = [params |-> p, context |-> ctx]]
  /\ seen' = [seen EXCEPT ![i] = [writers |-> VisibleWriters(wr),
                                  declared |-> declared]]
  /\ calls' = [calls EXCEPT ![i] = Append(@, [pos |-> n, fn |-> validators[n]])]
  /\ UNCHANGED <<hcalls, result, error>>

\* variant: params are checked against the declared schema before actionFn
InvokeActionFnChecked(i, n, p, ctx, wr) ==
  IF "inputSchema" \in DOMAIN ctx /\ ~safeParse(ctx.inputSchema, p).success
  THEN Return(i, ValidationFailed(zodValidator(ctx.inputSchema, p)))
  ELSE IF actionFn = Undefined
       THEN Throw(i, "this.actionFn is not a function")
       ELSE /\ pc' = [pc EXCEPT ![i] = "handler"]
            /\ cursor' = [cursor EXCEPT ![i] = n]
            /\ arg' = [arg EXCEPT ![i] = [params |-> p, context |-> ctx]]
            /\ seen' = [seen EXCEPT ![i] = [writers |-> VisibleWriters(wr),
                                            declared |-> declared]]
            /\ hcalls' = [hcalls EXCEPT ![i] = Append(@, actionFn)]
            /\ UNCHANGED <<calls, result, error>>

\* this.actionFn({ params, context: this.context }); calling undefined throws
InvokeActionFn(i, n, p, ctx, wr) ==
  IF actionFn = Undefined
  THEN Throw(i, "this.actionFn is not a function")
  ELSE /\ pc' = [pc EXCEPT ![i] = "handler"]
       /\ cursor' = [cursor EXCEPT ![i] = n]
       /\ arg' = [arg EXCEPT ![i] = [params |-> p, context |-> ctx]]
       /\ seen' = [seen EXCEPT ![i] = [writers |-> VisibleWriters(wr),
                                  declared |-> declared]]
       /\ hcalls' = [hcalls EXCEPT ![i] = Append(@, actionFn)]
       /\ UNCHANGED <<calls, result, error>>

\* variant: params are kept on the instance like the context, so a step is
\* handed the params of the invocation made last
LoopSharedParams(i, n, p, ctx, wr) ==
  LET started == {j \in Invocations : pc[j] # "idle"}
      q == IF pc[i] = "idle"
           THEN p
           ELSE params[CHOOSE j \in started : \A k \in started : k <= j]
  IN IF n <= Len(validators)
     THEN InvokeValidator(i, n, q, ctx, wr)
     ELSE InvokeActionFn(i, n, q, ctx, wr)

\* variant: once a validator of one invocation has failed, the others give
\* up at their next loop head with the same failure
LoopGivesUp(i, n, p, ctx, wr) ==
  LET failed == {k \in Invocations \ {i} :
                   /\ last[k] # <<>>
                   /\ "ok" \in DOMAIN last[k][1]
                   /\ ~last[k][1].ok}
  IN IF failed # {}
     THEN Return(i, ValidationFailed(last[CHOOSE k \in failed : TRUE][1]))
     ELSE IF n <= Len(validators)
          THEN InvokeValidator(i, n, p, ctx, wr)
          ELSE InvokeActionFn(i, n, p, ctx, wr)

\* head of the for..of loop with the iterator at position n: the iterator
\* reads the live array, so it ends when n is past the current length
Loop(i, n, p, ctx, wr) ==
  IF n <= Len(validators)
  THEN InvokeValidator(i, n, p, ctx, wr)
  ELSE InvokeActionFn(i, n, p, ctx, wr)

\* a call of the bound execute: runs up to its first await.  Invocations are
\* numbered in the order in which they are made.
execute(i, p) ==
  /\ bound
  /\ pc[i] = "idle"
  /\ \A j \in Invocations : j < i => pc[j] # "idle"
  /\ params' = [params EXCEPT ![i] = p]
  /\ entry' = [entry EXCEPT ![i] = [validators |-> Len(validators),
                                    actionFn |-> actionFn,
                                    settled |-> Settled]]
  /\ IF IsUnset(actionFn)
     THEN Throw(i, "Action function is undefined")
     ELSE Loop(i, 1, p, context, writer)
  /\ UNCHANGED <<builder, own, passed, last, hout>>

\* the awaited validator settles with r and execute resumes after the await;
\* when the validator's promise rejected, the await throws its error
validatorReturns(i, r) ==
  /\ pc[i] = "validator"
  /\ last' = [last EXCEPT ![i] = <<r>>]
  /\ IF "throws" \in DOMAIN r
     THEN /\ Throw(i, r.throws)
          /\ UNCHANGED <<context, writer, own, passed>>
     ELSE IF ~r.ok
          THEN /\ Return(i, ValidationFailed(r))
               /\ UNCHANGED <<context, writer, own, passed>>
          ELSE /\ context' = AssignContext(context, r)
               /\ writer' =
                    ObjectAssign(writer,
                      [k \in DOMAIN AssignContext(EmptyObject, r) |-> i])
               /\ own' = [own EXCEPT ![i] = AssignContext(@, r)]
               /\ passed' = [passed EXCEPT ![i] = @ + 1]
               /\ Loop(i, NextPosition(cursor[i]), params[i],
                       context', writer')
  /\ UNCHANGED <<validators, actionFn, bound, late, declared, params, entry,
                 hout>>

\* variant: the handler is dropped once it has returned
actionFnReturnsOnce(i, o) ==
  /\ pc[i] = "handler"
  /\ hout' = [hout EXCEPT ![i] = <<o>>]
  /\ Return(i, ActionReturned(o))
  /\ actionFn' = Undefined
  /\ UNCHANGED <<context, validators, bound, late, writer, declared, params,
                 entry, own, passed, last>>

\* the promise of actionFn settles with outcome o, and so does the invocation
actionFnReturns(i, o) ==
  /\ pc[i] = "handler"
  /\ hout' = [hout EXCEPT ![i] = <<o>>]
  /\ Return(i, ActionReturned(o))
  /\ UNCHANGED <<builder, params, entry, own, passed, last>>

\* the function of the pending validator call of invocation i
PendingValidator(i) == calls[i][Len(calls[i])].fn

\* the function of the pending actionFn call of invocation i
PendingActionFn(i) == hcalls[i][Len(hcalls[i])]

Next ==
  \/ \E schema \in Schemas : setInputSchema(schema)
  \/ \E validator \in Validators : addValidator(validator)
  \/ \E fn \in ActionFns \cup {Undefined} : setActionFn(fn)
  \/ \E i \in Invocations, p \in Params : execute(i, p)
  \/ \E i \in Invocations :
       /\ pc[i] = "validator"
       /\ \E r \in CallValidator(PendingValidator(i), arg[i]) :
            validatorReturns(i, r)
  \/ \E i \in Invocations :
       /\ pc[i] = "handler"
       /\ \E o \in CallActionFn(PendingActionFn(i), arg[i]) :
            actionFnReturns(i, o)

Spec == Init /\ [][Next]_vars

\* the pending step of invocation i returns and execute resumes
StepReturns(i) ==
  \/ /\ pc[i] = "validator"
     /\ \E r \in CallValidator(PendingValidator(i), arg[i]) :
          validatorReturns(i, r)
  \/ /\ pc[i] = "handler"
     /\ \E o \in CallActionFn(PendingActionFn(i), arg[i]) :
          actionFnReturns(i, o)

\* every step that is started eventually returns
SpecLive == Spec /\ \A i \in Invocations : WF_vars(StepReturns(i))

\* pipelines that declare an object schema, composed before the callable is
\* used; the adapter's step reads context.inputSchema, which the types allow
\* once a schema is declared
NextSchema ==
  \/ \E schema \in ObjectSchemas :
       /\ ~bound
       /\ setInputSchema(schema)
  \/ \E validator \in SchemaValidators :
       /\ ~bound
       /\ validator = "zodValidatorStep" => "inputSchema" \in DOMAIN context
       /\ addValidator(validator)
  \/ /\ ~bound
     /\ setActionFn("postHandler")
  \/ \E i \in Invocations, p \in ObjectParams : execute(i, p)
  \/ \E i \in Invocations :
       /\ pc[i] = "validator"
       /\ \E r \in CallValidator(PendingValidator(i), arg[i]) :
            validatorReturns(i, r)
  \/ \E i \in Invocations :
       /\ pc[i] = "handler"
       /\ \E o \in CallActionFn(PendingActionFn(i), arg[i]) :
            actionFnReturns(i, o)

SpecSchema == Init /\ [][NextSchema]_vars

\* pipelines with numeric validators, composed before the callable is used:
\* the builder methods are chained up to setActionFn, then the callable is
\* called
NextNumeric ==
  \/ /\ ~bound
     /\ setInputSchema("numberInputSchema")
  \/ \E validator \in NumericValidators :
       /\ ~bound
       /\ addValidator(validator)
  \/ /\ ~bound
     /\ setActionFn("postHandler")
  \/ \E i \in Invocations, p \in NumericParams : execute(i, p)
  \/ \E i \in Invocations :
       /\ pc[i] = "validator"
       /\ \E r \in CallValidator(PendingValidator(i), arg[i]) :
            validatorReturns(i, r)
  \/ \E i \in Invocations :
       /\ pc[i] = "handler"
       /\ \E o \in CallActionFn(PendingActionFn(i), arg[i]) :
            actionFnReturns(i, o)

SpecNumeric == Init /\ [][NextNumeric]_vars

\* pipelines whose validators contribute fragments with keys the context
\* already holds, composed before the callable is used
NextColliding ==
  \/ /\ ~bound
     /\ setInputSchema("numberInputSchema")
  \/ \E validator \in CollidingValidators :
       /\ ~bound
       /\ addValidator(validator)
  \/ /\ ~bound
     /\ setActionFn("postHandler")
  \/ \E i \in Invocations, p \in Params : execute(i, p)
  \/ \E i \in Invocations :
       /\ pc[i] = "validator"
       /\ \E r \in CallValidator(PendingValidator(i), arg[i]) :
            validatorReturns(i, r)
  \/ \E i \in Invocations :
       /\ pc[i] = "handler"
       /\ \E o \in CallActionFn(PendingActionFn(i), arg[i]) :
            actionFnReturns(i, o)

SpecColliding == Init /\ [][NextColliding]_vars

\* pipelines in which a validator may throw, composed before the callable
\* is used
NextThrowing ==
  \/ /\ ~bound
     /\ setInputSchema("numberInputSchema")
  \/ \E validator \in ThrowingValidators :
       /\ ~bound
       /\ addValidator(validator)
  \/ /\ ~bound
     /\ setActionFn("postHandler")
  \/ \E i \in Invocations, p \in Params : execute(i, p)
  \/ \E i \in Invocations :
       /\ pc[i] = "validator"
       /\ \E r \in CallValidator(PendingValidator(i), arg[i]) :
            validatorReturns(i, r)
  \/ \E i \in Invocations :
       /\ pc[i] = "handler"
       /\ \E o \in CallActionFn(PendingActionFn(i), arg[i]) :
            actionFnReturns(i, o)

SpecThrowing == Init /\ [][NextThrowing]_vars

\* ------------------------------------------------------------------ claims
Started(i) == pc[i] # "idle"

\* the latest validator result of invocation i is a failure
FailedLast(i) ==
  /\ last[i] # <<>>
  /\ "ok" \in DOMAIN last[i][1]
  /\ ~last[i][1].ok

\* the latest validator call of invocation i threw instead of returning
Threw(i) == last[i] # <<>> /\ "throws" \in DOMAIN last[i][1]

\* every validator invocation i called has returned ok
AllPassed(i) == passed[i] = Len(calls[i])

\* C1: once a validator of an invocation has failed, that validator is the
\* last step the invocation ever calls (no later validator, no actionFn), and
\* the invocation is resolved to a failure outcome whose errorCode and
\* errorPayload are the errorCode and payload of that validator's result.
FirstFailureShortCircuits ==
  \A i \in Invocations :
    FailedLast(i) =>
      /\ pc[i] = "resolved"
      /\ Len(calls[i]) = passed[i] + 1
      /\ hcalls[i] = <<>>
      /\ Len(result[i]) = 1
      /\ result[i][1].success = FALSE
      /\ Get(result[i][1], "errorCode") = Get(last[i][1], "errorCode")
      /\ Get(result[i][1], "errorPayload") = Get(last[i][1], "payload")

\* C1 case: a validator with a code and payload failed after an earlier one
\* passed and before the end of the list
FirstFailureWitness ==
  \E i \in Invocations :
    /\ FailedLast(i)
    /\ "errorCode" \in DOMAIN last[i][1]
    /\ Len(calls[i]) < Len(validators)
    /\ pc[i] = "resolved"

\* C2: no step of an invocation is handed a context holding an entry that a
\* validator of another invocation, running concurrently with it, contributed.
ConcurrentContextIsolated ==
  \A i \in Invocations :
    Started(i) =>
      \A j \in seen[i].writers \cap Invocations :
        j = i \/ j \in entry[i].settled

\* C3: no step of an invocation is handed a context holding an entry that a
\* validator of an invocation completed before this one began contributed.
SequentialContextFresh ==
  \A i \in Invocations :
    Started(i) => seen[i].writers \cap entry[i].settled = {}

\* C4: the context handed to actionFn is the declared inputSchema entry merged
\* with the fragments of this invocation's validators, and nothing else.
HandlerContextIsOwn ==
  \A i \in Invocations :
    hcalls[i] # <<>> =>
      arg[i].context = ObjectAssign(seen[i].declared, own[i])

\* C5: an invocation made with no validators and actionFn set calls no
\* validator, calls actionFn once, and resolves to the outcome it returned.
NoValidatorsReachHandler ==
  \A i \in Invocations :
    (Started(i) /\ entry[i].validators = 0 /\ entry[i].actionFn # Undefined) =>
      /\ calls[i] = <<>>
      /\ hcalls[i] = <<entry[i].actionFn>>
      /\ error[i] = <<>>
      /\ pc[i] \in {"handler", "resolved"}
      /\ pc[i] = "resolved" => (Len(hout[i]) = 1 /\ result[i] = hout[i])

NoValidatorsWitness ==
  \E i \in Invocations :
    /\ Started(i)
    /\ entry[i].validators = 0
    /\ pc[i] = "resolved"
    /\ "payload" \in DOMAIN result[i][1]

\* C6: an invocation made while actionFn is undefined is rejected with the
\* error "Action function is undefined" and never resolves to an outcome.
UnsetHandlerRejects ==
  \A i \in Invocations :
    (Started(i) /\ entry[i].actionFn = Undefined) =>
      /\ pc[i] = "rejected"
      /\ error[i] = <<"Action function is undefined">>
      /\ result[i] = <<>>

UnsetHandlerWitness ==
  \E i \in Invocations :
    /\ Started(i)
    /\ entry[i].actionFn = Undefined
    /\ entry[i].validators > 0
    /\ pc[i] = "rejected"

\* C7: the k-th validator call of an invocation is the call of the k-th
\* appended validator, and it is made only after the k-1 calls before it
\* have all returned ok.
ValidatorsRunInAppendOrder ==
  \A i \in Invocations :
    /\ \A k \in 1..Len(calls[i]) :
         /\ calls[i][k].pos = k
         /\ calls[i][k].fn = validators[k]
    /\ Len(calls[i]) <= passed[i] + 1
    /\ pc[i] = "validator" => Len(calls[i]) = passed[i] + 1

ValidatorsOrderWitness ==
  \E i \in Invocations :
    /\ Len(calls[i]) = 2
    /\ calls[i][1].fn # calls[i][2].fn

\* C8: an invocation that resolved after all of its validators passed
\* resolved to the outcome actionFn returned, whichever variant it is.
HandlerOutcomeUnmodified ==
  \A i \in Invocations :
    /\ (pc[i] = "resolved" /\ AllPassed(i)) =>
         /\ Len(hcalls[i]) = 1
         /\ Len(hout[i]) = 1
         /\ result[i] = hout[i]
    /\ hout[i] # <<>> => (pc[i] = "resolved" /\ result[i] = hout[i])

HandlerOutcomeWitness ==
  \E i \in Invocations :
    /\ pc[i] = "resolved"
    /\ passed[i] >= 1
    /\ AllPassed(i)
    /\ Get(result[i][1], "errorCode") = "dbError"

\* C9: when a validator result is not ok, the invocation resolves to a
\* failure outcome carrying an error code and a payload.
FailureCarriesCodeAndPayload ==
  \A i \in Invocations :
    FailedLast(i) =>
      /\ pc[i] = "resolved"
      /\ result[i][1].success = FALSE
      /\ Get(result[i][1], "errorCode") # Undefined
      /\ Get(result[i][1], "errorPayload") # Undefined

\* C10: every step an invocation calls after validators of its own have
\* passed is handed a context holding every entry those validators
\* contributed.
LaterStepsSeeOwnEntries ==
  \A i \in Invocations :
    Len(calls[i]) + Len(hcalls[i]) = passed[i] + 1 =>
      \A k \in DOMAIN own[i] :
        Get(arg[i].context, k) = own[i][k]

\* C11: an invocation runs the validators and the actionFn the builder held
\* when the invocation began: no addValidator or setActionFn made while it is
\* in flight adds a validator call to it or changes the actionFn it calls.
InFlightPipelineFixed ==
  \A i \in Invocations :
    Started(i) =>
      /\ Len(calls[i]) <= entry[i].validators
      /\ \A k \in 1..Len(hcalls[i]) : hcalls[i][k] = entry[i].actionFn
      /\ error[i] # <<"this.actionFn is not a function">>

\* steps of invocation i that have been called and have not returned yet
InProgress(i) ==
  Len(calls[i]) + Len(hcalls[i])
    - passed[i] - (IF FailedLast(i) \/ Threw(i) THEN 1 ELSE 0) - Len(hout[i])

\* C12: an invocation has at most one step called and not yet returned, and
\* actionFn is called only when every validator call has returned.
OneStepInProgress ==
  \A i \in Invocations :
    /\ InProgress(i) \in {0, 1}
    /\ InProgress(i) = 1 <=> pc[i] \in {"validator", "handler"}
    /\ hcalls[i] # <<>> => Len(calls[i]) = passed[i]

\* C12 case: actionFn is in progress after two validators ran one by one
OneStepWitness ==
  \E i \in Invocations :
    /\ pc[i] = "handler"
    /\ passed[i] = 2
    /\ InProgress(i) = 1

\* C13: a setInputSchema call puts the schema it is given under the key
\* inputSchema, keeps every other context entry, the validator list and
\* actionFn, and calls no step of any invocation; between such calls the
\* entry stays the schema of the most recent one.
SetInputSchemaRecords ==
  /\ [](Get(context, "inputSchema") = Get(declared, "inputSchema"))
  /\ [][\A schema \in Schemas :
          setInputSchema(schema) =>
            /\ context' = [k \in DOMAIN context \cup {"inputSchema"} |->
                             IF k = "inputSchema" THEN schema ELSE context[k]]
            /\ declared'.inputSchema = schema
            /\ validators' = validators
            /\ actionFn' = actionFn
            /\ pc' = pc
            /\ calls' = calls
            /\ hcalls' = hcalls]_vars

\* C13 case: the schema a step of an invocation was handed has been replaced
\* by a later setInputSchema call while the context held another entry
SetInputSchemaWitness ==
  \E i \in Invocations :
    /\ "inputSchema" \in DOMAIN seen[i].declared
    /\ Get(context, "inputSchema") # seen[i].declared.inputSchema
    /\ "userId" \in DOMAIN context
    /\ validators # <<>>
    /\ actionFn # Undefined

\* the schema in the context handed to the latest step of invocation i
HandedSchema(i) ==
  IF "context" \in DOMAIN arg[i]
  THEN Get(arg[i].context, "inputSchema")
  ELSE Undefined

\* the params of invocation i do not conform to the schema handed to its steps
NonConforming(i) ==
  /\ HandedSchema(i) # Undefined
  /\ ~safeParse(HandedSchema(i), params[i]).success

\* C14: an invocation whose params do not conform to the declared schema, and
\* which called no schema-validating step, is never stopped by the engine:
\* once every validator it called has passed, actionFn has been called, and
\* the outcome it resolves to is the one actionFn returned.
DeclaredSchemaNotEnforced ==
  \A i \in Invocations :
    ( /\ NonConforming(i)
      /\ \A k \in 1..Len(calls[i]) : calls[i][k].fn # "zodValidatorStep"
      /\ AllPassed(i)
      /\ error[i] = <<>> ) =>
        /\ Len(hcalls[i]) = 1
        /\ pc[i] \in {"handler", "resolved"}
        /\ pc[i] = "resolved" => result[i] = hout[i]

\* C14 case: params that the declared schema rejects went through a passing
\* validator to actionFn and its success outcome
DeclaredSchemaWitness ==
  \E i \in Invocations :
    /\ NonConforming(i)
    /\ params[i] = [name |-> ""]
    /\ calls[i] # <<>>
    /\ \A k \in 1..Len(calls[i]) : calls[i][k].fn # "zodValidatorStep"
    /\ pc[i] = "resolved"
    /\ result[i][1].success

\* this step is the return of a zodValidatorStep call of invocation i
ZodStepReturns(i) ==
  /\ pc[i] = "validator"
  /\ PendingValidator(i) = "zodValidatorStep"
  /\ passed'[i] # passed[i] \/ pc'[i] # "validator"

\* C15: when a zodValidatorStep call returns, its result is a bare pass
\* exactly when the schema engine accepts the params against the schema the
\* step was handed, and otherwise a failure with the code
\* zodValidator_invalidParams and the engine's issues in the engine's order;
\* on a pass the context is untouched and the next step is called (actionFn
\* when the step was the last validator), on a failure the invocation
\* resolves to a failure outcome with that code and those issues.  An
\* invocation whose validators were all adapter steps and passed resolves to
\* the outcome of actionFn.
ZodValidatorAdapts ==
  /\ [][\A i \in Invocations :
          ZodStepReturns(i) =>
            LET engine == safeParse(arg[i].context.inputSchema, arg[i].params)
            IN IF engine.success
               THEN /\ last'[i] = <<[ok |-> TRUE]>>
                    /\ context' = context
                    /\ passed'[i] = passed[i] + 1
                    /\ IF cursor[i] < Len(validators)
                       THEN /\ pc'[i] = "validator"
                            /\ Len(calls'[i]) = Len(calls[i]) + 1
                       ELSE /\ pc'[i] = "handler"
                            /\ hcalls'[i] = <<actionFn>>
               ELSE /\ last'[i] =
                         <<[ok |-> FALSE,
                            errorCode |-> "zodValidator_invalidParams",
                            payload |-> [issues |-> engine.error.issues]]>>
                    /\ pc'[i] = "resolved"
                    /\ result'[i] =
                         <<[success |-> FALSE,
                            message |-> "Validation failed",
                            errorCode |-> "zodValidator_invalidParams",
                            errorPayload |->
                              [issues |-> engine.error.issues]]>>
                    /\ calls'[i] = calls[i]
                    /\ hcalls'[i] = <<>>]_vars
  /\ [](\A i \in Invocations :
          ( /\ pc[i] = "resolved"
            /\ calls[i] # <<>>
            /\ \A k \in 1..Len(calls[i]) : calls[i][k].fn = "zodValidatorStep"
            /\ AllPassed(i) ) =>
              /\ Len(hout[i]) = 1
              /\ result[i] = hout[i])

\* C15 case: one invocation was refused by the adapter with several issues,
\* another went through the adapter to the outcome of actionFn
ZodValidatorWitness ==
  \E i, j \in Invocations :
    /\ pc[i] = "resolved"
    /\ Get(result[i][1], "errorCode") = "zodValidator_invalidParams"
    /\ Len(result[i][1].errorPayload.issues) >= 2
    /\ pc[j] = "resolved"
    /\ calls[j] # <<>>
    /\ \A k \in 1..Len(calls[j]) : calls[j][k].fn = "zodValidatorStep"
    /\ result[j][1].success

\* C16: in a pipeline of numeric validators and postHandler, two invocations
\* made with equal params resolve to equal outcomes, whatever ran before or
\* in between; with firstValidator then secondValidator the outcome is the
\* firstInvalid failure for 1, the secondInvalid failure for 2 and the
\* success outcome of postHandler otherwise.
OutcomeFromParamsAlone ==
  /\ \A i, j \in Invocations :
       (pc[i] = "resolved" /\ pc[j] = "resolved" /\ params[i] = params[j]) =>
         result[i] = result[j]
  /\ \A i \in Invocations : pc[i] # "rejected"
  /\ validators = <<"firstValidator", "secondValidator">> =>
       \A i \in Invocations :
         pc[i] = "resolved" =>
           result[i][1] =
             CASE params[i] = 1 ->
                    [success |-> FALSE, message |-> "Validation failed",
                     errorCode |-> "firstInvalid", errorPayload |-> "Data 1"]
               [] params[i] = 2 ->
                    [success |-> FALSE, message |-> "Validation failed",
                     errorCode |-> "secondInvalid", errorPayload |-> "Data 2"]
               [] OTHER ->
                    [success |-> TRUE, message |-> "Hello", payload |-> "Post"]

\* C16 case: two interleaved invocations with params 2 of the pipeline of the
\* example, the second made while the first was in flight, both resolved
OutcomeFromParamsWitness ==
  /\ validators = <<"firstValidator", "secondValidator">>
  /\ "inputSchema" \in DOMAIN context
  /\ \A i \in Invocations : pc[i] = "resolved" /\ params[i] = 2
  /\ \E j \in Invocations : entry[j].settled = {} /\ j > 1

\* C17: an invocation made while actionFn is undefined is rejected in the
\* call itself: it calls no validator and no actionFn, contributes nothing to
\* the context, and the call leaves the context as it was, however many
\* validators have been appended.
UnsetHandlerRunsNothing ==
  /\ [](\A i \in Invocations :
          (Started(i) /\ entry[i].actionFn = Undefined) =>
            /\ pc[i] = "rejected"
            /\ calls[i] = <<>>
            /\ hcalls[i] = <<>>
            /\ passed[i] = 0
            /\ own[i] = EmptyObject
            /\ i \notin VisibleWriters(writer))
  /\ [][\A i \in Invocations :
          (pc[i] = "idle" /\ pc'[i] # "idle" /\ actionFn = Undefined) =>
            /\ context' = context
            /\ pc'[i] = "rejected"]_vars

\* C17 case: the rejected invocation was made with the validator list full
\* and a context that held an entry
UnsetHandlerRunsNothingWitness ==
  \E i \in Invocations :
    /\ pc[i] = "rejected"
    /\ entry[i].actionFn = Undefined
    /\ entry[i].validators = Len(validators)
    /\ Len(validators) >= 2
    /\ "inputSchema" \in DOMAIN context

\* C18: no step removes a key from the context, and the entries an
\* invocation's validators contributed are still in the context after a later
\* validator of that invocation has failed.
ContextKeysNeverRemoved ==
  /\ [][DOMAIN context \subseteq DOMAIN context']_vars
  /\ [](\A i \in Invocations :
          FailedLast(i) => DOMAIN own[i] \subseteq DOMAIN context)

\* C18 case: an invocation failed at its second validator after its first
\* had contributed a fragment, in a context with a declared schema
ContextKeysWitness ==
  \E i \in Invocations :
    /\ FailedLast(i)
    /\ passed[i] = 1
    /\ "userId" \in DOMAIN own[i]
    /\ {"userId", "inputSchema"} \subseteq DOMAIN context

\* this step is the return of the pending validator call of invocation i
ValidatorReturnStep(i) ==
  /\ pc[i] = "validator"
  /\ passed'[i] # passed[i] \/ pc'[i] # "validator"

\* C19: when a validator call returns ok with a fragment, the context gains
\* the entries of the fragment and every other entry keeps its value; when it
\* returns ok without a fragment, or not ok, the context is left as it was.
MergeIsAdditive ==
  [][\A i \in Invocations :
       ValidatorReturnStep(i) =>
         LET r == last'[i][1]
         IN IF r.ok /\ "context" \in DOMAIN r
            THEN /\ DOMAIN context' = DOMAIN context \cup DOMAIN r.context
                 /\ \A k \in DOMAIN r.context : context'[k] = r.context[k]
                 /\ \A k \in DOMAIN context \ DOMAIN r.context :
                      context'[k] = context[k]
            ELSE context' = context]_vars

\* C19 case: an invocation's first validator passed with a fragment into a
\* context holding the declared schema, and its second passed without one
MergeIsAdditiveWitness ==
  \E i \in Invocations :
    /\ passed[i] = 2
    /\ last[i] = <<[ok |-> TRUE]>>
    /\ "userId" \in DOMAIN own[i]
    /\ "inputSchema" \in DOMAIN seen[i].declared
    /\ {"userId", "inputSchema"} \subseteq DOMAIN arg[i].context

\* C20: a step of an invocation (the call of the callable, the return of a
\* validator, the return of actionFn) leaves the validator list and actionFn
\* as they were.
ExecuteKeepsPipeline ==
  [][invocation' # invocation =>
       /\ validators' = validators
       /\ actionFn' = actionFn]_vars

\* C20 case: every invocation has run two different validators and actionFn
\* to the end, one of them made while another was in flight
ExecuteKeepsPipelineWitness ==
  /\ Len(validators) = 2
  /\ validators[1] # validators[2]
  /\ \A i \in Invocations :
       /\ pc[i] = "resolved"
       /\ passed[i] = 2
       /\ hcalls[i] = <<actionFn>>
  /\ \E j \in Invocations : j > 1 /\ entry[j].settled = {}

\* C21: a step that changes the validator list is an append of one
\* validator: the list grows by one at its end, the validators it held keep
\* their positions, and the step calls no validator and leaves the context
\* and actionFn as they were.
AddValidatorAppendsOne ==
  [][validators' # validators =>
       /\ Len(validators') = Len(validators) + 1
       /\ \A k \in 1..Len(validators) : validators'[k] = validators[k]
       /\ validators'[Len(validators')] \in Validators
       /\ context' = context
       /\ actionFn' = actionFn
       /\ pc' = pc
       /\ calls' = calls
       /\ hcalls' = hcalls]_vars

\* C21 case: a second, different validator has been appended to a pipeline
\* with a declared schema and a handler while an invocation was in flight
AddValidatorWitness ==
  \E i \in Invocations :
    /\ Started(i)
    /\ entry[i].validators = 1
    /\ Len(validators) = 2
    /\ validators[1] # validators[2]
    /\ "inputSchema" \in DOMAIN context
    /\ actionFn # Undefined

\* C22: the argument of every step call of an invocation carries the params
\* the invocation was called with.
StepsReceiveOwnParams ==
  \A i \in Invocations :
    "params" \in DOMAIN arg[i] => arg[i].params = params[i]

\* C22 case: two invocations with different params are in flight together,
\* each past its first validator and in its handler
OwnParamsWitness ==
  \E i, j \in Invocations :
    /\ i < j
    /\ pc[i] = "handler" /\ passed[i] >= 1
    /\ pc[j] = "handler" /\ passed[j] >= 1
    /\ params[i] # params[j]
    /\ i \notin entry[j].settled

\* invocation i is completed: its promise is resolved or rejected
Completed(i) == pc[i] \in {"resolved", "rejected"}

\* C23: when every started step eventually returns, every invocation made
\* eventually completes; it calls no more validators than the list holds and
\* actionFn at most once; and while a step of it is pending, the invocation
\* neither completes nor calls another step except by that step's return.
InvocationsComplete ==
  /\ \A i \in Invocations : Started(i) ~> Completed(i)
  /\ [](\A i \in Invocations :
          /\ Len(calls[i]) <= Len(validators)
          /\ Len(hcalls[i]) <= 1)
  /\ [][\A i \in Invocations :
          ( /\ pc[i] \in {"validator", "handler"}
            /\ \/ pc'[i] # pc[i]
               \/ calls'[i] # calls[i]
               \/ hcalls'[i] # hcalls[i] ) =>
              \/ pc[i] = "validator" /\ Len(last'[i]) = 1
                   /\ (passed'[i] = passed[i] + 1 \/ ~last'[i][1].ok)
              \/ pc[i] = "handler" /\ Len(hout'[i]) = 1 /\ hout[i] = <<>>]_vars

\* C23 case: an invocation completed after calling as many validators as the
\* list holds and actionFn, while another is still waiting for its first step
InvocationsCompleteWitness ==
  \E i, j \in Invocations :
    /\ pc[i] = "resolved"
    /\ Len(calls[i]) = 2
    /\ Len(hcalls[i]) = 1
    /\ pc[j] = "validator"
    /\ passed[j] = 0

\* C24: when a validator call returns ok with a fragment that has a key the
\* context already holds, the invocation is not rejected and goes on to its
\* next step, and the context then holds the fragment's value under every
\* key of the fragment.
CollisionLastWriteWins ==
  [][\A i \in Invocations :
       ( /\ ValidatorReturnStep(i)
         /\ last'[i][1].ok
         /\ "context" \in DOMAIN last'[i][1]
         /\ DOMAIN last'[i][1].context \cap DOMAIN context # {} ) =>
           /\ error'[i] = <<>>
           /\ pc'[i] \in {"validator", "handler"}
           /\ Len(calls'[i]) + Len(hcalls'[i])
                = Len(calls[i]) + Len(hcalls[i]) + 1
           /\ DOMAIN context' = DOMAIN context \cup DOMAIN last'[i][1].context
           /\ \A k \in DOMAIN last'[i][1].context :
                /\ context'[k] = last'[i][1].context[k]
                /\ arg'[i].context[k] = last'[i][1].context[k]]_vars

\* C24 case: a fragment has replaced the declared schema under inputSchema,
\* and the userId an invocation contributed has been replaced by another one
CollisionWitness ==
  /\ "inputSchema" \in DOMAIN declared
  /\ Get(context, "inputSchema") # declared.inputSchema
  /\ \E i \in Invocations :
       /\ "userId" \in DOMAIN own[i]
       /\ Get(context, "userId") # own[i].userId
       /\ error[i] = <<>>

\* the validator whose result invocation i awaited last
LastReturned(i) ==
  calls[i][IF FailedLast(i) THEN passed[i] + 1 ELSE passed[i]].fn

\* the latest result of invocation i is one of the adapter's step
ZodReturned(i) ==
  /\ last[i] # <<>>
  /\ LastReturned(i) = "zodValidatorStep"

ValidatorThrowRejects ==
  \A i \in Invocations :
    Threw(i) =>
      /\ pc[i] = "rejected"
      /\ error[i] = <<last[i][1].throws>>
      /\ result[i] = <<>>
      /\ hcalls[i] = <<>>
      /\ Len(calls[i]) = passed[i] + 1
      /\ DOMAIN own[i] \subseteq DOMAIN context

\* C26 case: the second validator threw after the first had contributed a
\* fragment
ValidatorThrowWitness ==
  \E i \in Invocations :
    /\ Threw(i)
    /\ passed[i] = 1
    /\ "userId" \in DOMAIN own[i]
    /\ "userId" \in DOMAIN context

\* C27: the actionFn an invocation calls is the one the most recent
\* setActionFn call had set when the invocation was made.
HandlerOfInvocationTime ==
  \A i \in Invocations :
    hcalls[i] # <<>> => hcalls[i] = <<entry[i].actionFn>>

\* C28: when a validator of invocation i has failed, any other invocation j
\* that is in flight can still have its pending step return; when a validator
\* of j then passes, j calls the validator at the next position of the list,
\* or actionFn when there is none; and the failing step of i changes nothing
\* of j.
ConcurrentControlIndependent ==
  /\ [](\A i, j \in Invocations :
          (i # j /\ FailedLast(i) /\ pc[j] \in {"validator", "handler"}) =>
            ENABLED StepReturns(j))
  /\ [][\A i, j \in Invocations :
          ( /\ i # j
            /\ FailedLast(i)
            /\ ValidatorReturnStep(j)
            /\ last'[j][1].ok ) =>
              IF cursor[j] < Len(validators)
              THEN /\ pc'[j] = "validator"
                   /\ calls'[j] =
                        Append(calls[j], [pos |-> cursor[j] + 1,
                                          fn |-> validators[cursor[j] + 1]])
              ELSE IF actionFn # Undefined
                   THEN /\ pc'[j] = "handler"
                        /\ hcalls'[j] = <<actionFn>>
                   ELSE pc'[j] = "rejected"]_vars
  /\ [][\A i, j \in Invocations :
          (i # j /\ ~FailedLast(i) /\ FailedLast(i)') =>
            /\ pc'[j] = pc[j]
            /\ cursor'[j] = cursor[j]
            /\ calls'[j] = calls[j]
            /\ hcalls'[j] = hcalls[j]
            /\ result'[j] = result[j]
            /\ error'[j] = error[j]]_vars

\* C28 case: one invocation has failed at its first validator; the other,
\* in flight at the same time, has passed two validators and is in actionFn
ConcurrentControlWitness ==
  \E i, j \in Invocations :
    /\ i < j
    /\ FailedLast(i)
    /\ passed[i] = 0
    /\ pc[j] = "handler"
    /\ passed[j] = 2
    /\ i \notin entry[j].settled

====
